---------------------------- MODULE Spec2Model ----------------------------
(***************************************************************************)
(* A model of doxhub/utils/version.py: the version formatter               *)
(* (get_complete_version, get_main_version, get_version) and the memoized  *)
(* changeset resolver (get_git_changeset).                                 *)
(*                                                                         *)
(* Text is a sequence of one-character strings.  Integers that do not fit  *)
(* the model checker's machine integers (the Unix timestamps printed by    *)
(* git) are signed decimal magnitudes: [neg, mag] with mag the sequence of *)
(* decimal digits, most significant first, without leading zeros.          *)
(***************************************************************************)
EXTENDS Integers, Sequences, FiniteSets, TLC

(***************************************************************************)
(* Bounds of the model.                                                    *)
(***************************************************************************)
\* Version numbers are drawn from {0, MaxPart, 10 + MaxPart}.
MaxPart == 2
\* The subprocess counter stops the resolver from launching beyond this.
MaxLaunches == 2

(***************************************************************************)
(* Text helpers.                                                           *)
(***************************************************************************)
DigitChars == <<"0", "1", "2", "3", "4", "5", "6", "7", "8", "9">>

IsDigitChar(c) == \E i \in 1..10 : DigitChars[i] = c

DigitVal(c) == (CHOOSE i \in 1..10 : DigitChars[i] = c) - 1

\* Characters that str.strip() and int() treat as white space.
Whitespace == {" ", "\n", "\t", "\r"}

\* The characters of a sequence of digit values.
Chars(ds) == [i \in 1..Len(ds) |-> DigitChars[ds[i] + 1]]

RECURSIVE NatDigits(_)
\* The decimal digit values of a natural number, most significant first.
NatDigits(n) == IF n < 10 THEN <<n>> ELSE Append(NatDigits(n \div 10), n % 10)

\* str(x) of an integer.
Str(n) == IF n < 0 THEN <<"-">> \o Chars(NatDigits(-n)) ELSE Chars(NatDigits(n))

RECURSIVE Join(_, _)
\* sep.join(parts) for a sequence of texts.
Join(sep, parts) ==
    IF parts = <<>> THEN <<>>
    ELSE IF Len(parts) = 1 THEN parts[1]
    ELSE parts[1] \o sep \o Join(sep, Tail(parts))

\* "%0<width>d" % n for n >= 0.
RECURSIVE ZeroPad(_, _)
ZeroPad(ds, width) == IF Len(ds) >= width THEN ds ELSE ZeroPad(<<0>> \o ds, width)

(***************************************************************************)
(* int(text): optional white space, an optional sign, decimal digits with  *)
(* single underscores allowed between digits, optional white space.        *)
(***************************************************************************)
RECURSIVE LStrip(_)
LStrip(s) == IF s # <<>> /\ Head(s) \in Whitespace THEN LStrip(Tail(s)) ELSE s

RECURSIVE RStrip(_)
RStrip(s) ==
    IF s # <<>> /\ s[Len(s)] \in Whitespace THEN RStrip(SubSeq(s, 1, Len(s) - 1)) ELSE s

RECURSIVE DropZeros(_)
DropZeros(ds) == IF ds # <<>> /\ Head(ds) = 0 THEN DropZeros(Tail(ds)) ELSE ds

\* The digits part of an integer literal: digits, single underscores between.
ValidDigits(s) ==
    /\ s # <<>>
    /\ IsDigitChar(s[1])
    /\ IsDigitChar(s[Len(s)])
    /\ \A i \in 1..Len(s) :
          \/ IsDigitChar(s[i])
          \/ s[i] = "_" /\ i > 1 /\ i < Len(s) /\ IsDigitChar(s[i + 1])

IsDigitCharOp(c) == IsDigitChar(c)

\* int(text): [ok, neg, mag]; ok = FALSE stands for ValueError.
ParseInt(text) ==
    LET t    == RStrip(LStrip(text))
        sgn  == t # <<>> /\ Head(t) \in {"+", "-"}
        body == IF sgn THEN Tail(t) ELSE t
        cs   == SelectSeq(body, IsDigitCharOp)
        mag  == DropZeros([i \in 1..Len(cs) |-> DigitVal(cs[i])])
    IN  IF ValidDigits(body)
        THEN [ok |-> TRUE, neg |-> sgn /\ Head(t) = "-" /\ mag # <<>>, mag |-> mag]
        ELSE [ok |-> FALSE, neg |-> FALSE, mag |-> <<>>]

(***************************************************************************)
(* Arithmetic on signed decimal magnitudes.                                *)
(***************************************************************************)
RECURSIVE LexLE(_, _)
\* a <= b for digit sequences of the same length.
LexLE(a, b) ==
    IF a = <<>> THEN TRUE
    ELSE IF Head(a) # Head(b) THEN Head(a) < Head(b)
    ELSE LexLE(Tail(a), Tail(b))

MagLE(a, b) == Len(a) < Len(b) \/ (Len(a) = Len(b) /\ LexLE(a, b))

\* x <= y for signed magnitudes.
BigLE(x, y) ==
    IF x.neg /\ ~y.neg THEN TRUE
    ELSE IF ~x.neg /\ y.neg THEN FALSE
    ELSE IF x.neg THEN MagLE(y.mag, x.mag)
    ELSE MagLE(x.mag, y.mag)

Big(neg, ds) == [neg |-> neg, mag |-> ds]

InRange(x, lo, hi) == BigLE(lo, x) /\ BigLE(x, hi)

RECURSIVE MagDivMod(_, _, _)
\* <<quotient, remainder>> of a magnitude by 86400, digit by digit.
MagDivMod(ds, q, r) ==
    IF ds = <<>> THEN <<q, r>>
    ELSE LET v == r * 10 + Head(ds)
         IN  MagDivMod(Tail(ds), q * 10 + v \div 86400, v % 86400)

\* divmod(x, 86400) with Python's floor semantics: <<days, second of day>>.
DaysAndSeconds(x) ==
    LET qr == MagDivMod(x.mag, 0, 0)
    IN  IF ~x.neg THEN qr
        ELSE IF qr[2] = 0 THEN <<-qr[1], 0>>
        ELSE <<-qr[1] - 1, 86400 - qr[2]>>

(***************************************************************************)
(* datetime.datetime.fromtimestamp(n, tz=utc) and strftime("%Y%m%d%H%M%S"). *)
(***************************************************************************)
\* The range of the platform's time_t (64 bits): outside it, OverflowError.
TimeTMin == Big(TRUE,  <<9,2,2,3,3,7,2,0,3,6,8,5,4,7,7,5,8,0,8>>)
TimeTMax == Big(FALSE, <<9,2,2,3,3,7,2,0,3,6,8,5,4,7,7,5,8,0,7>>)
\* The range gmtime accepts (the year fits a C int): outside it, OSError.
GmtimeMin == Big(TRUE,  <<6,7,7,6,8,0,4,0,6,0,9,7,4,0,8,0,0>>)
GmtimeMax == Big(FALSE, <<6,7,7,6,8,0,3,6,1,9,1,6,7,6,7,9,9>>)
\* The range of datetime (years 1 to 9999): outside it, ValueError.
DatetimeMin == Big(TRUE,  <<6,2,1,3,5,5,9,6,8,0,0>>)
DatetimeMax == Big(FALSE, <<2,5,3,4,0,2,3,0,0,7,9,9>>)

IsLeap(y) == y % 4 = 0 /\ (y % 100 # 0 \/ y % 400 = 0)

DaysInMonth(y, m) ==
    IF m = 2 THEN (IF IsLeap(y) THEN 29 ELSE 28)
    ELSE IF m \in {4, 6, 9, 11} THEN 30 ELSE 31

RECURSIVE MonthDay(_, _, _)
\* <<month, day>> of the 0-based day n of year y, searching from month m.
MonthDay(y, m, n) ==
    IF n < DaysInMonth(y, m) THEN <<m, n + 1>>
    ELSE MonthDay(y, m + 1, n - DaysInMonth(y, m))

\* The proleptic Gregorian <<year, month, day>> of a day count since 1970-01-01.
OrdToYmd(days) ==
    LET n0   == days + 719163 - 1
        n400 == n0 \div 146097
        r400 == n0 % 146097
        n100 == r400 \div 36524
        r100 == r400 % 36524
        n4   == r100 \div 1461
        r4   == r100 % 1461
        n1   == r4 \div 365
        r1   == r4 % 365
        year == n400 * 400 + n100 * 100 + n4 * 4 + n1 + 1
    IN  IF n1 = 4 \/ n100 = 4 THEN <<year - 1, 12, 31>>
        ELSE <<year>> \o MonthDay(year, 1, r1)

\* The result of fromtimestamp: a datetime, or the exception it raises.
FromTimestamp(n) ==
    IF ~InRange(n, TimeTMin, TimeTMax) THEN [exc |-> "OverflowError"]
    ELSE IF ~InRange(n, GmtimeMin, GmtimeMax) THEN [exc |-> "OSError"]
    ELSE IF ~InRange(n, DatetimeMin, DatetimeMax) THEN [exc |-> "ValueError"]
    ELSE LET ds  == DaysAndSeconds(n)
             ymd == OrdToYmd(ds[1])
         IN  [exc |-> "", year |-> ymd[1], month |-> ymd[2], day |-> ymd[3],
              hour |-> ds[2] \div 3600, minute |-> (ds[2] % 3600) \div 60,
              second |-> ds[2] % 60]

\* strftime("%Y%m%d%H%M%S").  padsYear: whether the C library's %Y pads the
\* year to four digits (glibc does not; CPython pads it itself from 3.13 on).
Strftime(dt, padsYear) ==
    Chars((IF padsYear THEN ZeroPad(NatDigits(dt.year), 4) ELSE NatDigits(dt.year))
          \o ZeroPad(NatDigits(dt.month), 2) \o ZeroPad(NatDigits(dt.day), 2)
          \o ZeroPad(NatDigits(dt.hour), 2) \o ZeroPad(NatDigits(dt.minute), 2)
          \o ZeroPad(NatDigits(dt.second), 2))

(***************************************************************************)
(* Values a call produces: a text, a tuple, None, or a raised exception.   *)
(***************************************************************************)
Result(kind, str, tup, exc) == [kind |-> kind, str |-> str, tup |-> tup, exc |-> exc]

None == Result("none", <<>>, <<>>, "")
StrResult(s) == Result("str", s, <<>>, "")
TupleResult(t) == Result("tuple", <<>>, t, "")
Raised(e) == Result("raise", <<>>, <<>>, e)
\* The resolver was not called / the cache holds no entry.
NotCalled == Result("notcalled", <<>>, <<>>, "")
Unset == Result("unset", <<>>, <<>>, "")

\* Python's truth value of a returned object.
Truthy(r) == r.kind = "str" /\ r.str # <<>>

(***************************************************************************)
(* Inputs.                                                                 *)
(***************************************************************************)
ReleaseKinds == {"alpha", "beta", "rc", "release"}

\* <<major, minor>> pairs, micro numbers and release serials drawn as inputs.
MajorMinors == {<<MaxPart, 0>>, <<0, 10 + MaxPart>>}
Micros == {0, MaxPart}
Serials == {0, 10 + MaxPart}

\* The well-formed descriptors drawn as inputs.
ValidDescriptors ==
    {<<mm[1], mm[2], c, k, n>> : mm \in MajorMinors, c \in Micros,
                                 k \in ReleaseKinds, n \in Serials}

\* Malformed descriptors: a wrong length, or a release kind outside the four.
BadDescriptors ==
    { <<>>, <<1, MaxPart>>, <<1, MaxPart, 0, "alpha">>,
      <<1, MaxPart, 0, "alpha", 0, 0>>, <<1, MaxPart, 0, "release", 0, 0>>,
      <<1, MaxPart, 0, "bogus", 0>>, <<1, MaxPart, MaxPart, "final", 1>>,
      <<1, 0, 0, "Alpha", 0>> }

Given(v) == [given |-> TRUE, v |-> v]
\* The call without the version argument (version=None).
Omitted == [given |-> FALSE, v |-> <<>>]

Args == {Given(v) : v \in ValidDescriptors \cup BadDescriptors} \cup {Omitted}

\* Values the package's VERSION constant may hold.
DefaultVersions == {<<MaxPart, 0, 0, "alpha", 0>>, <<1, MaxPart, MaxPart, "release", 0>>}

\* Texts the git command may leave on standard output.
Outputs ==
    { <<>>,
      <<"H", "E", "A", "D">>,
      Chars(<<1,7,0,4,1,1,0,4,0,0>>),
      Chars(<<1,7,0,4,1,1,0,4,0,0>>) \o <<"\n">>,
      Chars(<<9,5,1,7,8,2,4,0,0>>),
      <<"0">>,
      <<"-", "1">>,
      <<"1", "_", "0">>,
      <<"1", "_", "_", "0">>,
      Chars(<<2,5,3,4,0,2,3,0,0,7,9,9>>),
      Chars(<<2,5,3,4,0,2,3,0,0,8,0,0>>),
      <<"-">> \o Chars(<<6,2,1,3,5,5,9,6,8,0,0>>),
      <<"-">> \o Chars(<<6,2,1,3,5,5,9,6,8,0,1>>),
      <<"-">> \o Chars(<<3,0,6,1,0,2,2,4,0,0,1>>),
      Chars(<<6,7,7,6,8,0,3,6,1,9,1,6,7,6,8,0,0>>),
      Chars(<<9,2,2,3,3,7,2,0,3,6,8,5,4,7,7,5,8,0,8>>) }

Path(abs, parts) == [abs |-> abs, parts |-> parts]

\* Where the module was loaded from: __file__ (when defined) and os.getcwd().
Places ==
    { [hasFile |-> FALSE, file |-> Path(TRUE, <<>>), cwd |-> <<>>],
      [hasFile |-> TRUE,
       file |-> Path(TRUE, <<"srv", "DoxHub", "doxhub", "utils", "version.py">>),
       cwd |-> <<"home">>],
      [hasFile |-> TRUE,
       file |-> Path(FALSE, <<"..", "DoxHub", ".", "doxhub", "utils", "version.py">>),
       cwd |-> <<"srv", "build">>] }

(***************************************************************************)
(* State.                                                                  *)
(***************************************************************************)
VARIABLES
    place,      \* the module's __file__ and the process's working directory
    padsYear,   \* whether the platform's strftime pads %Y to four digits
    VERSION,    \* the package's default descriptor
    cache,      \* the lru_cache entry of get_git_changeset: Unset or a result
    launches,   \* the number of git subprocesses launched so far
    launchCwd,  \* the working directory of the last launch
    last,       \* the call that has just returned: [op, arg, res, cs], or NoCall
    first,      \* what the resolver's first completed call produced
    frames      \* per thread: the resolver call in progress

vars == <<place, padsYear, VERSION, cache, launches, launchCwd, last, first, frames>>

Threads == {"t1", "t2"}

NoCwd == <<"<none>">>
NoCall == [op |-> "", arg |-> Omitted, res |-> NotCalled, cs |-> NotCalled]
Idle == [pc |-> "idle", caller |-> "", arg |-> Omitted, launched |-> FALSE, out |-> <<>>]

Init ==
    /\ place \in Places
    /\ padsYear \in BOOLEAN
    /\ VERSION \in DefaultVersions
    /\ cache = Unset
    /\ launches = 0
    /\ launchCwd = NoCwd
    /\ last = NoCall
    /\ first = NotCalled
    /\ frames = [t \in Threads |-> Idle]

(***************************************************************************)
(* The version formatter.                                                  *)
(***************************************************************************)
\* get_complete_version without the assertion on the release kind.
get_complete_version_any_kind(arg, default) ==
    IF ~arg.given THEN TupleResult(default)
    ELSE IF Len(arg.v) # 5 THEN Raised("AssertionError")
    ELSE TupleResult(arg.v)

\* get_complete_version(version): the descriptor, or AssertionError.
get_complete_version(arg, default) ==
    IF ~arg.given THEN TupleResult(default)
    ELSE IF Len(arg.v) # 5 THEN Raised("AssertionError")
    ELSE IF arg.v[4] \notin ReleaseKinds THEN Raised("AssertionError")
    ELSE TupleResult(arg.v)

\* get_main_version that always formats three parts.
get_main_version_three_parts(arg, default) ==
    LET cv == get_complete_version(arg, default)
    IN  IF cv.kind = "raise" THEN cv
        ELSE StrResult(Join(<<".">>, [i \in 1..3 |-> Str(cv.tup[i])]))

\* get_main_version(version): X.Y, or X.Y.Z when Z is not 0.
get_main_version(arg, default) ==
    LET cv == get_complete_version(arg, default)
    IN  IF cv.kind = "raise" THEN cv
        ELSE LET version == cv.tup
                 parts   == IF version[3] = 0 THEN 2 ELSE 3
             IN  StrResult(Join(<<".">>, [i \in 1..parts |-> Str(version[i])]))

\* The development-build condition without the test of the serial.
NeedsChangesetAnyAlpha(version) == version[4] = "alpha"

\* The condition of the development-build branch of get_version.
NeedsChangeset(version) == version[4] = "alpha" /\ version[5] = 0

\* The mapping with the release candidate's older short code, "c".
MappingLegacy(kind) ==
    CASE kind = "alpha" -> StrResult(<<"a">>)
      [] kind = "beta"  -> StrResult(<<"b">>)
      [] kind = "rc"    -> StrResult(<<"c">>)
      [] OTHER          -> Raised("KeyError")

\* mapping = {'alpha': 'a', 'beta': 'b', 'rc': 'rc'}; mapping[kind].
Mapping(kind) ==
    CASE kind = "alpha" -> StrResult(<<"a">>)
      [] kind = "beta"  -> StrResult(<<"b">>)
      [] kind = "rc"    -> StrResult(<<"r", "c">>)
      [] OTHER          -> Raised("KeyError")

\* The suffix with a fall-back to the short code ("a0") when the development
\* build has no changeset.
VersionSubShortCode(version, git_changeset) ==
    IF NeedsChangeset(version) /\ Truthy(git_changeset)
    THEN StrResult(<<".", "d", "e", "v">> \o git_changeset.str)
    ELSE IF version[4] # "release"
    THEN LET code == Mapping(version[4])
         IN  IF code.kind = "raise" THEN code
             ELSE StrResult(code.str \o Str(version[5]))
    ELSE StrResult(<<>>)

\* The suffix get_version appends; git_changeset is what the resolver returned
\* (NotCalled outside the development-build branch).
VersionSub(version, git_changeset) ==
    IF NeedsChangeset(version)
    THEN IF Truthy(git_changeset)
         THEN StrResult(<<".", "d", "e", "v">> \o git_changeset.str)
         ELSE StrResult(<<>>)
    ELSE IF version[4] # "release"
    THEN LET code == Mapping(version[4])
         IN  IF code.kind = "raise" THEN code
             ELSE StrResult(code.str \o Str(version[5]))
    ELSE StrResult(<<>>)

\* get_version(version), given what the resolver produced for this call.
get_version(arg, default, git_changeset) ==
    LET cv == get_complete_version(arg, default)
    IN  IF cv.kind = "raise" THEN cv
        ELSE IF git_changeset.kind = "raise" THEN git_changeset
        ELSE LET main == get_main_version(Given(cv.tup), default)
                 sub  == VersionSub(cv.tup, git_changeset)
             IN  IF sub.kind = "raise" THEN sub
                 ELSE StrResult(main.str \o sub.str)

(***************************************************************************)
(* The changeset resolver.                                                 *)
(***************************************************************************)
RECURSIVE Normpath(_, _)
\* os.path.normpath of an absolute path: "." dropped, ".." pops (not the root).
Normpath(parts, acc) ==
    IF parts = <<>> THEN acc
    ELSE IF Head(parts) = "." THEN Normpath(Tail(parts), acc)
    ELSE IF Head(parts) = ".."
    THEN Normpath(Tail(parts), IF acc = <<>> THEN acc ELSE SubSeq(acc, 1, Len(acc) - 1))
    ELSE Normpath(Tail(parts), Append(acc, Head(parts)))

\* os.path.abspath(path): the components below the root.
Abspath(path, cwd) == Normpath(IF path.abs THEN path.parts ELSE cwd \o path.parts, <<>>)

\* os.path.dirname of an absolute path; the root is its own parent.
Dirname(parts) == IF parts = <<>> THEN <<>> ELSE SubSeq(parts, 1, Len(parts) - 1)

\* "__file__" in globals()
FileKnown(pl) == pl.hasFile

\* The directory of the module itself: one dirname instead of two.
RepoDirOfModule(pl) == Dirname(Abspath(pl.file, pl.cwd))

\* repo_dir = dirname(dirname(abspath(__file__)))
RepoDir(pl) == Dirname(Dirname(Abspath(pl.file, pl.cwd)))

\* Lines 116-124: what the body makes of the captured standard output.
ChangesetOf(stdout, pads) ==
    LET n == ParseInt(stdout)
    IN  IF ~n.ok THEN None
        ELSE LET timestamp == FromTimestamp(Big(n.neg, n.mag))
             IN  IF timestamp.exc = "ValueError" THEN None
                 ELSE IF timestamp.exc # "" THEN Raised(timestamp.exc)
                 ELSE StrResult(Strftime(timestamp, pads))

\* The body of get_git_changeset; launched: whether it ran the subprocess.
ChangesetBody(launched, stdout, pads) ==
    IF ~launched THEN None ELSE ChangesetOf(stdout, pads)

\* functools.lru_cache: whether the call is answered from the cache.
CacheHit(c) == c.kind # "unset"

\* A cache that stores every returned value, replacing the entry.
CacheStoreLatest(c, result) == IF result.kind = "raise" THEN c ELSE result

\* functools.lru_cache after the wrapped call: a returned value is stored unless
\* an entry for the key appeared meanwhile; an exception stores nothing.
CacheStore(c, result) ==
    IF result.kind = "raise" THEN c
    ELSE IF c.kind # "unset" THEN c
    ELSE result

\* The history of the resolver's first completed call.
NoteFirst(f, result) == IF f.kind = "notcalled" THEN result ELSE f

\* What one whole call of the memoized get_git_changeset produces, stdout
\* being what the subprocess prints if it is launched.
Resolved(stdout) ==
    IF CacheHit(cache) THEN cache
    ELSE ChangesetBody(FileKnown(place), stdout, padsYear)

\* The effect of that call on the cache and on the subprocess bookkeeping.
Resolve(outcome) ==
    IF CacheHit(cache)
    THEN UNCHANGED <<cache, launches, launchCwd>>
    ELSE LET launched == FileKnown(place)
         IN  /\ launched => launches < MaxLaunches
             /\ cache' = CacheStore(cache, outcome)
             /\ launches' = IF launched THEN launches + 1 ELSE launches
             /\ launchCwd' = IF launched THEN RepoDir(place) ELSE launchCwd

\* The standard outputs to consider for a call made now.
OutputsNow == IF ~CacheHit(cache) /\ FileKnown(place) THEN Outputs ELSE {<<>>}

(***************************************************************************)
(* The calls, one at a time (a single thread).                             *)
(***************************************************************************)
Call(op, arg, res, cs) == [op |-> op, arg |-> arg, res |-> res, cs |-> cs]

GetCompleteVersion(arg) ==
    /\ last = NoCall
    /\ last' = Call("get_complete_version", arg,
                    get_complete_version(arg, VERSION), NotCalled)
    /\ UNCHANGED <<place, padsYear, VERSION, cache, launches, launchCwd, first, frames>>

GetMainVersion(arg) ==
    /\ last = NoCall
    /\ last' = Call("get_main_version", arg, get_main_version(arg, VERSION), NotCalled)
    /\ UNCHANGED <<place, padsYear, VERSION, cache, launches, launchCwd, first, frames>>

\* Whether get_version(arg) reaches the resolver: the descriptor passes the
\* checks and selects the development-build branch.
CallsResolver(arg, default) ==
    LET cv == get_complete_version(arg, default)
    IN  IF cv.kind = "raise" THEN FALSE ELSE NeedsChangeset(cv.tup)

\* get_version outside the development-build branch, or failing its checks.
GetVersionPlain(arg) ==
    LET cv == get_complete_version(arg, VERSION)
    IN  /\ last = NoCall
        /\ ~CallsResolver(arg, VERSION)
        /\ last' = Call("get_version", arg, get_version(arg, VERSION, NotCalled), NotCalled)
        /\ UNCHANGED <<place, padsYear, VERSION, cache, launches, launchCwd, first, frames>>

\* get_version in the development-build branch: it calls the resolver.
GetVersionDev(arg) ==
    LET cv == get_complete_version(arg, VERSION)
    IN  /\ last = NoCall
        /\ CallsResolver(arg, VERSION)
        /\ \E stdout \in OutputsNow :
              LET cs == Resolved(stdout)
              IN  /\ Resolve(cs)
                  /\ last' = Call("get_version", arg, get_version(arg, VERSION, cs), cs)
                  /\ first' = NoteFirst(first, cs)
        /\ UNCHANGED <<place, padsYear, VERSION, frames>>

GetGitChangeset ==
    /\ last = NoCall
    /\ \E stdout \in OutputsNow :
          LET cs == Resolved(stdout)
          IN  /\ Resolve(cs)
              /\ last' = Call("get_git_changeset", Omitted, cs, cs)
              /\ first' = NoteFirst(first, cs)
    /\ UNCHANGED <<place, padsYear, VERSION, frames>>

\* The caller takes the returned value (or the exception) and goes on.
Continue ==
    /\ last # NoCall
    /\ last' = NoCall
    /\ UNCHANGED <<place, padsYear, VERSION, cache, launches, launchCwd, first, frames>>

Next ==
    \/ \E arg \in Args : GetCompleteVersion(arg)
    \/ \E arg \in Args : GetMainVersion(arg)
    \/ \E arg \in Args : GetVersionPlain(arg)
    \/ \E arg \in Args : GetVersionDev(arg)
    \/ GetGitChangeset
    \/ Continue

Spec == Init /\ [][Next]_vars

(***************************************************************************)
(* The same resolver called from several threads.  A thread can be         *)
(* preempted after the cache lookup missed and while the subprocess runs:  *)
(* lru_cache holds no lock across the wrapped call.                        *)
(***************************************************************************)
\* Outputs considered when threads race: nothing, two commits, an overflow.
RaceOutputs ==
    { <<>>, <<"0">>, Chars(<<1,7,0,4,1,1,0,4,0,0>>),
      Chars(<<9,2,2,3,3,7,2,0,3,6,8,5,4,7,7,5,8,0,8>>) }

\* The racing callers: get_git_changeset itself, or a development-build get_version.
RaceCallers ==
    { [caller |-> "get_git_changeset", arg |-> Omitted],
      [caller |-> "get_version", arg |-> Given(<<MaxPart, 0, 0, "alpha", 0>>)] }

\* What the caller of the resolver returns, the resolver having produced cs.
Returned(caller, arg, cs) ==
    IF caller = "get_version"
    THEN Call("get_version", arg, get_version(arg, VERSION, cs), cs)
    ELSE Call("get_git_changeset", Omitted, cs, cs)

\* Thread t calls the resolver and the wrapper finds the cached entry.
ThreadHit(t) ==
    /\ frames[t].pc = "idle"
    /\ last = NoCall
    /\ CacheHit(cache)
    /\ \E c \in RaceCallers : last' = Returned(c.caller, c.arg, cache)
    /\ first' = NoteFirst(first, cache)
    /\ UNCHANGED <<place, padsYear, VERSION, cache, launches, launchCwd, frames>>

\* Thread t calls the resolver, the lookup misses, the body is entered.
ThreadMiss(t) ==
    /\ frames[t].pc = "idle"
    /\ ~CacheHit(cache)
    /\ \E c \in RaceCallers :
          frames' = [frames EXCEPT ![t] = [pc |-> "body", caller |-> c.caller,
                                           arg |-> c.arg, launched |-> FALSE, out |-> <<>>]]
    /\ UNCHANGED <<place, padsYear, VERSION, cache, launches, launchCwd, last, first>>

\* Lines 104-114 in thread t: no __file__, or the subprocess runs and prints.
ThreadRun(t) ==
    /\ frames[t].pc = "body"
    /\ IF FileKnown(place)
       THEN /\ launches < MaxLaunches
            /\ launches' = launches + 1
            /\ launchCwd' = RepoDir(place)
            /\ \E stdout \in RaceOutputs :
                  frames' = [frames EXCEPT ![t].pc = "ran", ![t].launched = TRUE,
                                           ![t].out = stdout]
       ELSE /\ frames' = [frames EXCEPT ![t].pc = "ran"]
            /\ UNCHANGED <<launches, launchCwd>>
    /\ UNCHANGED <<place, padsYear, VERSION, cache, last, first>>

\* Lines 116-124 in thread t, then the wrapper stores the result and returns it.
ThreadReturn(t) ==
    /\ frames[t].pc = "ran"
    /\ last = NoCall
    /\ LET cs == ChangesetBody(frames[t].launched, frames[t].out, padsYear)
       IN  /\ cache' = CacheStore(cache, cs)
           /\ last' = Returned(frames[t].caller, frames[t].arg, cs)
           /\ first' = NoteFirst(first, cs)
    /\ frames' = [frames EXCEPT ![t] = Idle]
    /\ UNCHANGED <<place, padsYear, VERSION, launches, launchCwd>>

NextThreads ==
    \/ \E t \in Threads : ThreadHit(t)
    \/ \E t \in Threads : ThreadMiss(t)
    \/ \E t \in Threads : ThreadRun(t)
    \/ \E t \in Threads : ThreadReturn(t)
    \/ Continue

SpecThreads == Init /\ [][NextThreads]_vars

(***************************************************************************)
(* Properties.                                                             *)
(***************************************************************************)
\* A descriptor that meets the contract: five elements, a known release kind.
IsValid(v) == Len(v) = 5 /\ v[4] \in {"alpha", "beta", "rc", "release"}

\* The descriptor a call works on: the one supplied, or the package's.
Effective(arg) == IF arg.given THEN arg.v ELSE VERSION

\* A valid descriptor of a development build: alpha with serial 0.
IsDevBuild(v) == IF IsValid(v) THEN v[4] = "alpha" /\ v[5] = 0 ELSE FALSE

AllDigits(text) == \A i \in 1..Len(text) : text[i] \in {"0","1","2","3","4","5","6","7","8","9"}

\* A decimal numeral as str() writes a natural number: digits, no leading zero.
IsNumeral(text) == text # <<>> /\ AllDigits(text) /\ (Len(text) > 1 => text[1] # "0")

RECURSIVE NumeralValue(_)
NumeralValue(text) ==
    IF text = <<>> THEN 0
    ELSE 10 * NumeralValue(SubSeq(text, 1, Len(text) - 1))
         + (CHOOSE d \in 0..9 : Str(d) = <<text[Len(text)]>>)

RECURSIVE SplitDots(_, _)
\* text.split("."): the pieces between the dots.
SplitDots(text, piece) ==
    IF text = <<>> THEN <<piece>>
    ELSE IF Head(text) = "." THEN <<piece>> \o SplitDots(Tail(text), <<>>)
    ELSE SplitDots(Tail(text), Append(piece, Head(text)))

\* A step in which a call is made and returns.
Returns == last = NoCall /\ last' # NoCall

\* C1: every call of get_git_changeset returns what the first call produced
\* (a cached None included) and the git subprocess runs at most once.
C1_MemoizedOnce ==
    /\ launches <= 1
    /\ last.cs.kind # "notcalled" => last.cs = first

\* C2: for a valid (alpha, 0) descriptor get_version queries the resolver and
\* returns main + ".dev" + timestamp when it returns a timestamp, and exactly
\* main (no "a0") when it returns None.
C2_DevBuildSuffix ==
    (last.op = "get_version" /\ IsDevBuild(Effective(last.arg)))
    => LET main == get_main_version(Given(Effective(last.arg)), VERSION).str
       IN  /\ last.cs.kind # "notcalled"
           /\ last.cs.kind = "str"
              => last.res = StrResult(main \o <<".", "d", "e", "v">> \o last.cs.str)
           /\ last.cs.kind = "none" => last.res = StrResult(main)

C2_Witness ==
    /\ last.op = "get_version"
    /\ last.arg = Given(<<MaxPart, 0, 0, "alpha", 0>>)
    /\ last.cs = StrResult(<<"2","0","2","4","0","1","0","1","1","2","0","0","0","0">>)
    /\ last.res.str = Str(MaxPart) \o <<".", "0", ".", "d", "e", "v">> \o last.cs.str

\* The suffix the claim prescribes outside the development build.
SuffixOK(v, suffix) ==
    IF v[4] = "release" THEN suffix = <<>>
    ELSE LET code == IF v[4] = "alpha" THEN <<"a">>
                     ELSE IF v[4] = "beta" THEN <<"b">> ELSE <<"r", "c">>
             n    == Len(code)
         IN  /\ Len(suffix) > n
             /\ SubSeq(suffix, 1, n) = code
             /\ IsNumeral(SubSeq(suffix, n + 1, Len(suffix)))
             /\ NumeralValue(SubSeq(suffix, n + 1, Len(suffix))) = v[5]

\* C3: for a valid descriptor that is not (alpha, 0), get_version returns the
\* main version followed by nothing for a release (whatever the serial) and by
\* the short code a / b / rc and the decimal serial otherwise.
C3_PreReleaseSuffix ==
    (last.op = "get_version" /\ IsValid(Effective(last.arg))
                             /\ ~IsDevBuild(Effective(last.arg)))
    => LET v    == Effective(last.arg)
           main == get_main_version(Given(v), VERSION).str
           text == last.res.str
       IN  /\ last.res.kind = "str"
           /\ Len(text) >= Len(main)
           /\ SubSeq(text, 1, Len(main)) = main
           /\ SuffixOK(v, SubSeq(text, Len(main) + 1, Len(text)))

C3_Witness ==
    /\ last.op = "get_version"
    /\ last.arg = Given(<<MaxPart, 0, 0, "rc", 10 + MaxPart>>)
    /\ last.res.str = Str(MaxPart) \o <<".", "0", "r", "c">> \o Str(10 + MaxPart)

\* C4: for a valid descriptor get_main_version returns major.minor when micro
\* is 0 and major.minor.micro otherwise, as decimal numerals joined by dots,
\* whatever the release kind and serial are.
C4_MainVersionShape ==
    (last.op = "get_main_version" /\ IsValid(Effective(last.arg)))
    => LET v      == Effective(last.arg)
           pieces == SplitDots(last.res.str, <<>>)
       IN  /\ last.res.kind = "str"
           /\ Len(pieces) = (IF v[3] = 0 THEN 2 ELSE 3)
           /\ \A i \in 1..Len(pieces) :
                 IsNumeral(pieces[i]) /\ NumeralValue(pieces[i]) = v[i]
           /\ \A k \in ReleaseKinds, n \in Serials :
                 get_main_version(Given(<<v[1], v[2], v[3], k, n>>), VERSION) = last.res

C4_Witness ==
    /\ last.op = "get_main_version"
    /\ last.arg = Given(<<0, 10 + MaxPart, MaxPart, "beta", 0>>)
    /\ last.res.str = <<"0", ".">> \o Str(10 + MaxPart) \o <<".">> \o Str(MaxPart)

\* C5: a supplied descriptor of the wrong length or with an unknown release
\* kind makes get_complete_version, get_main_version and get_version fail with
\* AssertionError before the resolver is reached (cache and subprocess count
\* unchanged); a supplied descriptor passing both checks is returned as it is,
\* and an omitted one yields the package's VERSION.
C5_ContractViolation ==
    [][Returns =>
        /\ (/\ last'.op \in {"get_complete_version", "get_main_version", "get_version"}
            /\ last'.arg.given
            /\ ~IsValid(last'.arg.v))
           => /\ last'.res = Raised("AssertionError")
              /\ last'.cs = NotCalled
              /\ cache' = cache
              /\ launches' = launches
        /\ (last'.op = "get_complete_version" /\ last'.arg.given /\ IsValid(last'.arg.v))
           => last'.res = TupleResult(last'.arg.v)
        /\ (last'.op = "get_complete_version" /\ ~last'.arg.given)
           => last'.res = TupleResult(VERSION)]_vars

C5_Witness ==
    /\ last.op = "get_version"
    /\ last.arg = Given(<<1, MaxPart, 0, "bogus", 0>>)
    /\ last.res = Raised("AssertionError")
    /\ cache.kind = "str"
    /\ launches = 1

\* C6: whatever the git command prints, every value get_git_changeset returns
\* or caches is None or a text of exactly 14 decimal digits.
C6_FourteenDigits ==
    \A r \in {cache, last.cs, first} :
        r.kind = "str" => Len(r.str) = 14 /\ AllDigits(r.str)

\* C7: an unresolvable changeset is never an error: get_git_changeset never
\* raises, and get_version on a valid (alpha, 0) descriptor returns normally.
C7_NeverRaises ==
    /\ last.op = "get_git_changeset" => last.res.kind \in {"none", "str"}
    /\ (last.op = "get_version" /\ IsDevBuild(Effective(last.arg)))
       => last.res.kind = "str"

\* C8: get_main_version, get_complete_version, and get_version on a descriptor
\* that is not (alpha, 0), leave the cache and the subprocess count unchanged.
C8_ResolverOnlyInDevBranch ==
    [][(/\ Returns
        /\ \/ last'.op \in {"get_main_version", "get_complete_version"}
           \/ last'.op = "get_version" /\ ~IsDevBuild(Effective(last'.arg)))
       => /\ cache' = cache
          /\ launches' = launches
          /\ last'.cs = NotCalled]_vars

C8_Witness ==
    /\ last.op = "get_version"
    /\ last.arg = Given(<<MaxPart, 0, 0, "alpha", 10 + MaxPart>>)
    /\ last.res.kind = "str"
    /\ last.cs = NotCalled
    /\ cache.kind = "str"
    /\ launches = 1

\* C9: without a source location get_git_changeset returns None and no
\* subprocess is ever launched; with one, nothing is parsed before a launch,
\* and the launch's working directory is the parent of the directory that
\* contains the module.
C9_SourceLocation ==
    /\ ~place.hasFile
       => /\ launches = 0
          /\ cache \in {Unset, None}
          /\ last.cs \in {NotCalled, None}
    /\ (cache.kind = "str" \/ last.cs.kind \in {"str", "raise"}) => launches >= 1
    /\ launches >= 1
       => LET module == Abspath(place.file, place.cwd)
          IN  /\ Len(module) >= 2
              /\ launchCwd \o SubSeq(module, Len(module) - 1, Len(module)) = module

C9_Witness ==
    /\ ~place.file.abs
    /\ launches = 1
    /\ launchCwd = <<"srv", "DoxHub", "doxhub">>
    /\ last.op = "get_git_changeset"
    /\ last.res.kind = "str"

\* C10 as stated: however the first calls of several threads interleave, the
\* subprocess is launched at most once and every caller gets the same value.
C10_SingleLaunch ==
    /\ launches <= 1
    /\ Cardinality({t \in Threads : frames[t].pc = "ran" /\ frames[t].launched}) <= 1
    /\ (last.cs.kind # "notcalled" /\ CacheHit(cache)) => last.cs = cache

\* C10 as amended: the cache is written at most once and never changes
\* afterwards, and a call that begins after the write returns the cached
\* value without entering the body or launching a subprocess.
C10_WriteOnce ==
    [][/\ CacheHit(cache) => cache' = cache
       /\ \A t \in Threads :
             (CacheHit(cache) /\ frames[t].pc = "idle") => frames'[t].pc = "idle"
       /\ (Returns /\ frames' = frames)
          => last'.cs = cache /\ launches' = launches]_vars

\* Two overlapping first calls: both launched, the second to finish returns
\* its own value while the cache keeps the first one.
C10_Witness ==
    /\ launches = 2
    /\ first.kind = "str"
    /\ cache = first
    /\ last.cs.kind = "str"
    /\ last.cs # cache

=============================================================================
